---- MODULE Spec2Model ----
(***************************************************************************)
(* flask_rips: resource registration (Api.add_resource, Api.init_app, the  *)
(* deferred blueprint protocol) and response negotiation                   *)
(* (Api.make_response, Api.output, Resource.dispatch_request).             *)
(*                                                                         *)
(* The host application (flask.Flask), the mount point (flask.Blueprint,   *)
(* flask.blueprints.BlueprintSetupState) and the Accept header             *)
(* (werkzeug MIMEAccept) are modelled by what Flask >= 1.0 and             *)
(* Werkzeug >= 0.15 do at the places the source calls them.                *)
(***************************************************************************)
EXTENDS Integers, Sequences, FiniteSets, TLC

VARIABLES api, app, bp, setups, resource, nviews, attached, last, request

vars == <<api, app, bp, setups, resource, nviews, attached, last, request>>

(***************************************************************************)
(* Values                                                                  *)
(***************************************************************************)
None == "None"

Apis == {1, 2}

\* resource classes and resource.__name__.lower()
Resources == {"Foo", "Bar"}

Lower(name) == IF name = "Foo" THEN "foo" ELSE "bar"

\* the url patterns of one add_resource call
UrlLists == {<<"/hi", "/yo">>}

\* (resource class, endpoint= keyword) pairs handed to add_resource
Registrations ==
  {[resource |-> "Foo", endpoint |-> None],
   [resource |-> "Bar", endpoint |-> None],
   [resource |-> "Bar", endpoint |-> "foo"]}

\* BlueprintSetupState.url_prefix; None and '' are both falsy where the
\* source tests it, so the absent prefix is the empty string
MountPrefixes == {"", "/bp"}

\* (prefix, url_part_order) the first Api is constructed with; the second
\* Api takes the constructor's defaults
Configs ==
  {[prefix |-> "", url_part_order |-> <<"b", "a", "e">>],
   [prefix |-> "/api", url_part_order |-> <<"b", "a", "e">>],
   [prefix |-> "/api", url_part_order |-> <<"a", "e", "b">>]}

DefaultOrder == <<"b", "a", "e">>

PatchName == "_blueprint_setup_add_url_rule_patch"

MaxAdds == 2

MaxBinds == 2

\* calls of api.representation(mediatype)
MaxRepresentations == 2

(***************************************************************************)
(* Media types are (type, subtype) pairs, as werkzeug splits them; the     *)
(* absent media type (None) is the empty tuple.                            *)
(***************************************************************************)
NoType == <<>>

JSON == <<"application", "json">>

XML == <<"application", "xml">>

TEXT == <<"text", "plain">>

HTML == <<"text", "html">>

ANY == <<"*", "*">>

\* DEFAULT_REPRESENTATIONS
DEFAULT_REPRESENTATIONS == <<[mediatype |-> JSON, func |-> "output_json"]>>

\* what an Accept header may list, and with which quality (in tenths;
\* -1: the value is not listed)
AcceptValues == {JSON, XML, ANY}

Qualities == {0, 5, 10}

AcceptHeaders ==
  {{[value |-> v, quality |-> f[v]] : v \in {x \in AcceptValues : f[x] # -1}} :
     f \in [AcceptValues -> Qualities \cup {-1}]}

\* media types and transformers handed to api.representation
Registrable == {JSON, XML, TEXT}

Transformers == {"f", "g"}

\* Api(default_mediatype=...) and make_response(fallback_mediatype=...)
DefaultMediatypes == {JSON, TEXT, NoType}

Fallbacks == {NoType, TEXT, XML}

\* Resource.representations of the resource classes (None: empty)
ResourceRepresentations(r) ==
  IF r = "Bar" THEN <<[mediatype |-> JSON, func |-> "bar_json"]>> ELSE <<>>

NoHeaders == {}

NoResponse ==
  [kind |-> "none", by |-> "", data |-> "", code |-> 0, headers |-> NoHeaders,
   content_type |-> NoType]

\* a finished response object built by the handler itself
HandlerResponse ==
  [kind |-> "response", by |-> "handler", data |-> "body", code |-> 202,
   headers |-> {<<"X", "2">>}, content_type |-> HTML]

\* what a handler may return: payload, (payload, status),
\* (payload, status, headers), or a finished response object
Returns ==
  {[shape |-> "bare", data |-> "d", code |-> 0, headers |-> NoHeaders, obj |-> NoResponse],
   [shape |-> "pair", data |-> "d", code |-> 201, headers |-> NoHeaders, obj |-> NoResponse],
   [shape |-> "triple", data |-> "d", code |-> 201, headers |-> {<<"X", "1">>},
    obj |-> NoResponse],
   [shape |-> "response", data |-> "", code |-> 0, headers |-> NoHeaders,
    obj |-> HandlerResponse]}

(***************************************************************************)
(* Decorators. A callable is the sequence of the decorators wrapped around *)
(* it, the outermost first: decorator(f) puts the decorator in front.      *)
(***************************************************************************)
\* the decorators wrapped the other way round: the first listed outermost
RECURSIVE ApplyDecoratorsFirstOutermost(_, _)
ApplyDecoratorsFirstOutermost(decorators, f) ==
  IF decorators = <<>> THEN f
  ELSE ApplyDecoratorsFirstOutermost(Tail(decorators), f \o <<Head(decorators)>>)

\* for decorator in decorators: f = decorator(f)
RECURSIVE ApplyDecorators(_, _)
ApplyDecorators(decorators, f) ==
  IF decorators = <<>> THEN f
  ELSE ApplyDecorators(Tail(decorators), <<Head(decorators)>> \o f)

\* Resource.method_decorators: a flat list, or a mapping verb -> list
Flat(list) == [mapping |-> FALSE, list |-> list, verbs |-> <<>>]

PerVerb(verbs) == [mapping |-> TRUE, list |-> <<>>, verbs |-> verbs]

(***************************************************************************)
(* Api._complete_url                                                       *)
(***************************************************************************)
RECURSIVE JoinParts(_, _)
JoinParts(parts, order) ==
  IF order = <<>> THEN ""
  ELSE (IF parts[Head(order)] # "" THEN parts[Head(order)] ELSE "")
         \o JoinParts(parts, Tail(order))

_complete_url(self, url_part, registration_prefix) ==
  JoinParts([b |-> registration_prefix, a |-> self.prefix, e |-> url_part],
            self.url_part_order)

(***************************************************************************)
(* The world an operation works on, with the exception it has raised.      *)
(***************************************************************************)
WorldOf(apis, host, mount, states, classes, n) ==
  [api |-> apis, app |-> host, bp |-> mount, setups |-> states,
   resource |-> classes, nviews |-> n, exc |-> None, by |-> 0]

World == WorldOf(api, app, bp, setups, resource, nviews)

Raise(w, e, a) == [w EXCEPT !.exc = e, !.by = a]

\* a rule is a finished string or partial(self._complete_url, url)
Str(s) == [callable |-> FALSE, s |-> s, api |-> 0]

Partial(a, url) == [callable |-> TRUE, s |-> url, api |-> a]

(***************************************************************************)
(* flask.Flask.add_url_rule: the rule joins the url map, then the endpoint *)
(* table refuses to overwrite an endpoint with another view function.      *)
(* origin = [api, url, b] records which Api, pattern and registration      *)
(* prefix the rule came from, cls the resource class it was added for      *)
(* (history, not read by the program).                                     *)
(***************************************************************************)
FlaskAddUrlRule(w, rule, endpoint, view, origin) ==
  LET entry == [rule |-> rule, endpoint |-> endpoint, api |-> origin.api,
                url |-> origin.url, b |-> origin.b, cls |-> view.view_class]
      app1 == [w.app EXCEPT !.url_map = Append(@, entry)]
      taken == endpoint \in DOMAIN w.app.view_functions
  IN  IF taken /\ w.app.view_functions[endpoint] # view
      THEN Raise([w EXCEPT !.app = app1], "AssertionError", origin.api)
      ELSE [w EXCEPT !.app =
              [app1 EXCEPT !.view_functions = (endpoint :> view) @@ @]]

\* flask.Blueprint.add_url_rule: record(lambda s: s.add_url_rule(rule, ...))
BlueprintAddUrlRule(w, rule, view) ==
  [w EXCEPT !.bp.deferred_functions =
     Append(@, [kind |-> "rule", api |-> rule.api, rule |-> rule, view |-> view])]

(***************************************************************************)
(* Api._blueprint_setup_add_url_rule_patch                                 *)
(***************************************************************************)
_blueprint_setup_add_url_rule_patch(w, s, rule, view, a) ==
  LET blueprint_setup == w.setups[s]
      r == IF rule.callable
           THEN _complete_url(w.api[rule.api], rule.s, blueprint_setup.url_prefix)
           ELSE IF blueprint_setup.url_prefix # ""
                THEN blueprint_setup.url_prefix \o rule.s
                ELSE rule.s
  IN  FlaskAddUrlRule(w, r, w.bp.name \o "." \o view.name, view,
                      [api |-> a, url |-> rule.s, b |-> blueprint_setup.url_prefix])

\* BlueprintSetupState.add_url_rule as Flask ships it: prefix + rule, and
\* a callable rule is a type error
OriginalAddUrlRule(w, s, rule, view, a) ==
  LET st == w.setups[s]
  IN  IF rule.callable THEN Raise(w, "TypeError", a)
      ELSE FlaskAddUrlRule(w, st.url_prefix \o rule.s,
                           w.bp.name \o "." \o view.name, view,
                           [api |-> a, url |-> rule.s, b |-> st.url_prefix])

SetupAddUrlRule(w, s, rule, view, a) ==
  IF w.setups[s].add_url_rule = PatchName
  THEN _blueprint_setup_add_url_rule_patch(w, s, rule, view, a)
  ELSE OriginalAddUrlRule(w, s, rule, view, a)

(***************************************************************************)
(* Api._register_view                                                      *)
(***************************************************************************)
\* lines 270-290, one url
RegisterUrl(w, a, host, url, view) ==
  LET self == w.api[a]
  IN  IF self.blueprint # None
      THEN IF self.blueprint_setup # 0
           THEN SetupAddUrlRule(w, self.blueprint_setup, Str(url), view, a)
           ELSE IF host = "app"
                THEN Raise(w, "TypeError", a)
                ELSE BlueprintAddUrlRule(w, Partial(a, url), view)
      ELSE IF host = "app"
           THEN FlaskAddUrlRule(w, _complete_url(self, url, ""), view.name, view,
                                [api |-> a, url |-> url, b |-> ""])
           ELSE BlueprintAddUrlRule(w, Str(_complete_url(self, url, "")), view)

RECURSIVE RegisterUrls(_, _, _, _, _)
RegisterUrls(w, a, host, urls, view) ==
  IF urls = <<>> \/ w.exc # None THEN w
  ELSE RegisterUrls(RegisterUrl(w, a, host, Head(urls), view),
                    a, host, Tail(urls), view)

EndpointOf(r, ep) == IF ep # None THEN ep ELSE Lower(r)

\* the endpoint test without the comparison of the view classes
EndpointTaken(w, host, r, endpoint) ==
  /\ host = "app"
  /\ endpoint \in DOMAIN w.app.view_functions

\* a Blueprint of Flask >= 1.0 has no view_functions: getattr(..., {})
EndpointConflict(w, host, r, endpoint) ==
  /\ host = "app"
  /\ endpoint \in DOMAIN w.app.view_functions
  /\ w.app.view_functions[endpoint].view_class # r

\* the registration starting the Api's endpoints set afresh
RegisterViewForgettingEndpoints(w, a, host, r, urls, ep) ==
  LET endpoint == EndpointOf(r, ep)
      w1 == [w EXCEPT !.api[a].endpoints = {endpoint}]
  IN  IF EndpointConflict(w1, host, r, endpoint)
      THEN Raise(w1, "ValueError", a)
      ELSE LET w2 == [w1 EXCEPT !.resource[r].mediatypes = a,
                                !.resource[r].endpoint = endpoint,
                                !.nviews = @ + 1]
               resource_func == [view_class |-> r, name |-> endpoint,
                                 api |-> a, id |-> w2.nviews,
                                 decorators |->
                                   ApplyDecorators(w2.api[a].decorators, <<>>)]
           IN  RegisterUrls(w2, a, host, urls, resource_func)

_register_view(w, a, host, r, urls, ep) ==
  LET endpoint == EndpointOf(r, ep)
      w1 == [w EXCEPT !.api[a].endpoints = @ \cup {endpoint}]
  IN  IF EndpointConflict(w1, host, r, endpoint)
      THEN Raise(w1, "ValueError", a)
      ELSE LET w2 == [w1 EXCEPT !.resource[r].mediatypes = a,
                                !.resource[r].endpoint = endpoint,
                                !.nviews = @ + 1]
               resource_func == [view_class |-> r, name |-> endpoint,
                                 api |-> a, id |-> w2.nviews,
                                 decorators |->
                                   ApplyDecorators(w2.api[a].decorators, <<>>)]
           IN  RegisterUrls(w2, a, host, urls, resource_func)

(***************************************************************************)
(* Api._init_app and Api._deferred_blueprint_init                          *)
(***************************************************************************)
RECURSIVE RegisterQueued(_, _, _, _)
RegisterQueued(w, a, host, queue) ==
  IF queue = <<>> \/ w.exc # None THEN w
  ELSE RegisterQueued(
         _register_view(w, a, host, Head(queue).resource, Head(queue).urls,
                        Head(queue).endpoint),
         a, host, Tail(queue))

_init_app(w, a, host) == RegisterQueued(w, a, host, w.api[a].resources)

\* the callback without its test for a patch already installed
DeferredInitAlwaysPatches(w, a, s) ==
  LET w1 == [w EXCEPT !.api[a].blueprint_setup = s]
      w2 == [w1 EXCEPT !.setups[s]._original_add_url_rule =
                         w1.setups[s].add_url_rule,
                       !.setups[s].add_url_rule = PatchName,
                       !.setups[s].patches = Append(@, a)]
  IN  IF ~ w2.setups[s].first_registration
      THEN Raise(w2, "ValueError", a)
      ELSE _init_app(w2, a, "app")

\* the callback without its first_registration test
DeferredInitUnchecked(w, a, s) ==
  LET w1 == [w EXCEPT !.api[a].blueprint_setup = s]
      w2 == IF w1.setups[s].add_url_rule # PatchName
            THEN [w1 EXCEPT !.setups[s]._original_add_url_rule =
                              w1.setups[s].add_url_rule,
                            !.setups[s].add_url_rule = PatchName,
                            !.setups[s].patches = Append(@, a)]
            ELSE w1
  IN  _init_app(w2, a, "app")

_deferred_blueprint_init(w, a, s) ==
  LET w1 == [w EXCEPT !.api[a].blueprint_setup = s]
      w2 == IF w1.setups[s].add_url_rule # PatchName
            THEN [w1 EXCEPT !.setups[s]._original_add_url_rule =
                              w1.setups[s].add_url_rule,
                            !.setups[s].add_url_rule = PatchName,
                            !.setups[s].patches = Append(@, a)]
            ELSE w1
  IN  IF ~ w2.setups[s].first_registration
      THEN Raise(w2, "ValueError", a)
      ELSE _init_app(w2, a, "app")

(***************************************************************************)
(* flask.Flask.register_blueprint / flask.Blueprint.register: a fresh      *)
(* setup state, then the deferred functions in the order recorded; an      *)
(* exception ends the loop. patches lists the Apis whose callback replaced  *)
(* the state's add_url_rule (history, not read by the program).            *)
(***************************************************************************)
RunDeferred(w, s, f) ==
  IF f.kind = "init" THEN _deferred_blueprint_init(w, f.api, s)
  ELSE SetupAddUrlRule(w, s, f.rule, f.view, f.api)

RECURSIVE RunAllDeferred(_, _, _)
RunAllDeferred(w, s, fs) ==
  IF fs = <<>> \/ w.exc # None THEN w
  ELSE RunAllDeferred(RunDeferred(w, s, Head(fs)), s, Tail(fs))

BlueprintRegister(w, url_prefix) ==
  LET first_registration == w.bp.name \notin w.app.blueprints
      state == [url_prefix |-> url_prefix,
                first_registration |-> first_registration,
                add_url_rule |-> "add_url_rule",
                _original_add_url_rule |-> None, patches |-> <<>>]
      w1 == [w EXCEPT !.app.blueprints = @ \cup {w.bp.name},
                      !.setups = Append(@, state)]
  IN  RunAllDeferred(w1, Len(w1.setups), w1.bp.deferred_functions)

(***************************************************************************)
(* Api.init_app and Api.__init__                                           *)
(***************************************************************************)
InitAppOn(w, a, target) ==
  IF target = "bp"
  THEN [w EXCEPT !.bp.deferred_functions = Append(@, [kind |-> "init", api |-> a]),
                 !.api[a].blueprint = "bp"]
  ELSE _init_app(w, a, "app")

\* Api(app, prefix=..., url_part_order=...); the other keywords at their
\* defaults
NewApi(prefix, url_part_order) ==
  [representations |-> DEFAULT_REPRESENTATIONS, default_mediatype |-> JSON,
   prefix |-> prefix, url_part_order |-> url_part_order,
   decorators |-> <<>>, catch_all_404s |-> FALSE,
   serve_challenge_on_401 |-> FALSE, errors |-> {},
   blueprint_setup |-> 0, endpoints |-> {}, resources |-> <<>>,
   app |-> None, blueprint |-> None]

Construct(w, a, target, prefix, url_part_order) ==
  LET w1 == [w EXCEPT !.api[a] = NewApi(prefix, url_part_order)]
  IN  IF target = None THEN w1
      ELSE InitAppOn([w1 EXCEPT !.api[a].app = target], a, target)

EmptyWorld ==
  [api |-> [a \in Apis |-> NewApi("", DefaultOrder)],
   app |-> [url_map |-> <<>>, view_functions |-> <<>>, blueprints |-> {}],
   bp |-> [name |-> "test", deferred_functions |-> <<>>],
   setups |-> <<>>,
   resource |-> [r \in Resources |->
                   [mediatypes |-> 0, endpoint |-> None, handlers |-> {"get"},
                    method_decorators |-> Flat(<<>>)]],
   nviews |-> 0, exc |-> None, by |-> 0]

(***************************************************************************)
(* Api.add_resource                                                        *)
(***************************************************************************)
AddResourceTo(w, a, r, urls, ep) ==
  IF w.api[a].app # None
  THEN _register_view(w, a, w.api[a].app, r, urls, ep)
  ELSE [w EXCEPT !.api[a].resources =
          Append(@, [resource |-> r, urls |-> urls, endpoint |-> ep])]

(***************************************************************************)
(* Api.url_for: the endpoint handed to flask.url_for, which builds the     *)
(* path of a rule of that endpoint or fails with BuildError; a resource    *)
(* class never registered has no endpoint attribute.                       *)
(***************************************************************************)
FlaskUrlFor(w, endpoint) ==
  LET rules == {i \in 1..Len(w.app.url_map) : w.app.url_map[i].endpoint = endpoint}
  IN  IF rules = {} THEN [endpoint |-> endpoint, url |-> None, exc |-> "BuildError"]
      ELSE [endpoint |-> endpoint,
            url |-> w.app.url_map[CHOOSE i \in rules : \A j \in rules : i <= j].rule,
            exc |-> None]

url_for(w, a, r) ==
  LET endpoint == w.resource[r].endpoint
  IN  IF endpoint = None
      THEN [endpoint |-> None, url |-> None, exc |-> "AttributeError"]
      ELSE IF w.api[a].blueprint # None
           THEN FlaskUrlFor(w, w.bp.name \o "." \o endpoint)
           ELSE FlaskUrlFor(w, endpoint)

(***************************************************************************)
(* request.accept_mimetypes.best_match (werkzeug MIMEAccept): the Accept   *)
(* header is a set of (value, quality) entries, which werkzeug keeps       *)
(* sorted by specificity, then quality, descending.                        *)
(***************************************************************************)
NoEntry == [value |-> NoType, quality |-> -1]

_value_matches(value, item) ==
  IF item[1] = "*" /\ item[2] # "*" THEN FALSE
  ELSE \/ (item[1] = "*" /\ item[2] = "*")
       \/ (value[1] = "*" /\ value[2] = "*")
       \/ /\ item[1] = value[1]
          /\ (item[2] = "*" \/ value[2] = "*" \/ item[2] = value[2])

_specificity(value) ==
  2 * (IF value[1] # "*" THEN 1 ELSE 0) + (IF value[2] # "*" THEN 1 ELSE 0)

SortKey(entry) == 100 * _specificity(entry.value) + entry.quality

\* the first entry of the sorted header that matches
_best_single_match(accept, match) ==
  LET found == {e \in accept : _value_matches(match, e.value)}
  IN  IF found = {} THEN NoEntry
      ELSE CHOOSE e \in found : \A d \in found : SortKey(d) <= SortKey(e)

RECURSIVE BestMatchLoop(_, _, _, _, _)
BestMatchLoop(accept, matches, result, best_quality, best_specificity) ==
  IF matches = <<>> THEN result
  ELSE LET server_item == Head(matches)
           match == _best_single_match(accept, server_item)
       IN  IF match = NoEntry \/ match.quality <= 0 \/ match.quality < best_quality
           THEN BestMatchLoop(accept, Tail(matches), result, best_quality,
                              best_specificity)
           ELSE IF \/ match.quality > best_quality
                   \/ _specificity(match.value) > best_specificity
                THEN BestMatchLoop(accept, Tail(matches), server_item,
                                   match.quality, _specificity(match.value))
                ELSE BestMatchLoop(accept, Tail(matches), result, best_quality,
                                   best_specificity)

\* best_match called without its default
BestMatchWithoutDefault(accept, matches, default) ==
  BestMatchLoop(accept, matches, NoType, -1, -1)

best_match(accept, matches, default) ==
  BestMatchLoop(accept, matches, default, -1, -1)

(***************************************************************************)
(* Ordered mappings media type -> transformer                              *)
(***************************************************************************)
Keys(representations) ==
  [i \in 1..Len(representations) |-> representations[i].mediatype]

Has(representations, mediatype) ==
  \E i \in 1..Len(representations) : representations[i].mediatype = mediatype

Lookup(representations, mediatype) ==
  representations[CHOOSE i \in 1..Len(representations) :
                    representations[i].mediatype = mediatype].func

\* a mapping that moves a key set again to the end
SetItemMovesToEnd(representations, mediatype, func) ==
  Append(SelectSeq(representations, LAMBDA e : e.mediatype # mediatype),
         [mediatype |-> mediatype, func |-> func])

\* OrderedDict.__setitem__: a known key keeps its place
SetItem(representations, mediatype, func) ==
  IF Has(representations, mediatype)
  THEN [i \in 1..Len(representations) |->
          IF representations[i].mediatype = mediatype
          THEN [mediatype |-> mediatype, func |-> func]
          ELSE representations[i]]
  ELSE Append(representations, [mediatype |-> mediatype, func |-> func])

(***************************************************************************)
(* Responses, transformers and unpack                                      *)
(***************************************************************************)
\* flask.make_response(body, code, headers): a response of Flask's
\* default content type
FlaskMakeResponse(by, data, code, headers) ==
  [kind |-> "response", by |-> by, data |-> data, code |-> code,
   headers |-> headers, content_type |-> HTML]

\* a transformer builds its response from what it is called with
Transform(func, data, code, headers) == FlaskMakeResponse(func, data, code, headers)

\* the transformer's own Content-Type left in place
StampKept(resp, mediatype) == resp

\* resp.headers['Content-Type'] = mediatype
Stamp(resp, mediatype) == [resp EXCEPT !.content_type = mediatype]

Failure(name, code) ==
  [kind |-> name, by |-> "", data |-> "", code |-> code, headers |-> NoHeaders,
   content_type |-> NoType]

Finished(resp) ==
  [shape |-> "response", data |-> "", code |-> 0, headers |-> NoHeaders, obj |-> resp]

Event(ev, level, func, mediatype, data, code, headers) ==
  [ev |-> ev, level |-> level, func |-> func, mediatype |-> mediatype,
   data |-> data, code |-> code, headers |-> headers]

Call(ev, level, name) == Event(ev, level, name, NoType, "", 0, NoHeaders)

\* a tracing decorator logs its entry, calls what it wraps and logs its return
Enters(f, level) == [i \in 1..Len(f) |-> Call("enter", level, f[i])]

Leaves(f, level) == [i \in 1..Len(f) |-> Call("return", level, f[Len(f) + 1 - i])]

Negotiated(level, mediatype) ==
  Event("best_match", level, "", mediatype, "", 0, NoHeaders)

\* str(data): the payload's string form
str(data) == "str(" \o data \o ")"

\* flask_rips.utils.unpack
unpack(value) ==
  IF value.shape = "triple"
  THEN [data |-> value.data, code |-> value.code, headers |-> value.headers]
  ELSE IF value.shape = "pair"
       THEN [data |-> value.data, code |-> value.code, headers |-> NoHeaders]
       ELSE [data |-> value.data, code |-> 200, headers |-> NoHeaders]

(***************************************************************************)
(* Api.make_response                                                       *)
(***************************************************************************)
\* the fallback_mediatype keyword dropped
FallbackIgnored(self, fallback_mediatype) == self.default_mediatype

FallbackOf(self, fallback_mediatype) ==
  IF fallback_mediatype # NoType THEN fallback_mediatype ELSE self.default_mediatype

\* keyword: headers is passed as headers=..., which the transformer takes
\* and flask.make_response(*args) does not
make_response(self, data, code, headers, keyword, fallback_mediatype, accept) ==
  LET default_mediatype == FallbackOf(self, fallback_mediatype)
      mediatype == best_match(accept, Keys(self.representations), default_mediatype)
      negotiated == Negotiated("api", mediatype)
  IN  IF mediatype = NoType
      THEN [resp |-> Failure("NotAcceptable", 406), events |-> <<negotiated>>]
      ELSE IF Has(self.representations, mediatype)
           THEN LET func == Lookup(self.representations, mediatype)
                IN  [resp |-> Stamp(Transform(func, data, code, headers), mediatype),
                     events |-> <<negotiated,
                                  Event("transform", "api", func, mediatype,
                                        data, code, headers)>>]
           ELSE IF mediatype = TEXT
                THEN IF keyword
                     THEN [resp |-> Failure("TypeError", 0),
                           events |-> <<negotiated>>]
                     ELSE [resp |-> Stamp(FlaskMakeResponse("flask", str(data),
                                                            code, headers), TEXT),
                           events |-> <<negotiated>>]
                ELSE [resp |-> Failure("InternalServerError", 500),
                      events |-> <<negotiated>>]

(***************************************************************************)
(* Resource.dispatch_request, from the handler's return value on           *)
(***************************************************************************)
\* the dispatcher without its test for a finished response
DispatchWithoutResponseTest(r, accept, resp) ==
  LET representations == ResourceRepresentations(r)
      mediatype == best_match(accept, Keys(representations), NoType)
      negotiated == Negotiated("resource", mediatype)
  IN  IF Has(representations, mediatype)
      THEN LET u == unpack(resp)
               func == Lookup(representations, mediatype)
           IN  [value |-> Finished(Stamp(Transform(func, u.data, u.code,
                                                   u.headers), mediatype)),
                events |-> <<negotiated,
                             Event("transform", "resource", func, mediatype,
                                   u.data, u.code, u.headers)>>]
      ELSE [value |-> resp, events |-> <<negotiated>>]

dispatch_request(r, accept, resp) ==
  IF resp.shape = "response"
  THEN [value |-> resp, events |-> <<>>]
  ELSE LET representations == ResourceRepresentations(r)
           mediatype == best_match(accept, Keys(representations), NoType)
           negotiated == Negotiated("resource", mediatype)
       IN  IF Has(representations, mediatype)
           THEN LET u == unpack(resp)
                    func == Lookup(representations, mediatype)
                IN  [value |-> Finished(Stamp(Transform(func, u.data, u.code,
                                                        u.headers), mediatype)),
                     events |-> <<negotiated,
                                  Event("transform", "resource", func, mediatype,
                                        u.data, u.code, u.headers)>>]
           ELSE [value |-> resp, events |-> <<negotiated>>]

(***************************************************************************)
(* Api.output: the wrapper around the resource's view function             *)
(***************************************************************************)
\* the wrapper calling make_response(data) without code and headers
OutputWrapperDefaultStatus(self, r, accept, returned) ==
  LET d == dispatch_request(r, accept, returned)
  IN  IF d.value.shape = "response"
      THEN [resp |-> d.value.obj, events |-> d.events, dispatched |-> d.value]
      ELSE LET u == unpack(d.value)
               m == make_response(self, u.data, 200, NoHeaders, FALSE, NoType, accept)
           IN  [resp |-> m.resp, events |-> d.events \o m.events,
                dispatched |-> d.value]

\* the wrapper without its test for a finished response
OutputWrapperAlwaysMaterializes(self, r, accept, returned) ==
  LET d == dispatch_request(r, accept, returned)
      u == unpack(d.value)
      m == make_response(self, u.data, u.code, u.headers, TRUE, NoType, accept)
  IN  [resp |-> m.resp, events |-> d.events \o m.events, dispatched |-> d.value]

OutputWrapper(self, r, accept, returned) ==
  LET d == dispatch_request(r, accept, returned)
  IN  IF d.value.shape = "response"
      THEN [resp |-> d.value.obj, events |-> d.events, dispatched |-> d.value]
      ELSE LET u == unpack(d.value)
               m == make_response(self, u.data, u.code, u.headers, TRUE, NoType, accept)
           IN  [resp |-> m.resp, events |-> d.events \o m.events,
                dispatched |-> d.value]

(***************************************************************************)
(* Resource.dispatch_request up to the handler's return, and the view      *)
(* function a registration leaves with the host: the Api's decorators      *)
(* around Api.output's wrapper around the resource's view.                 *)
(***************************************************************************)
Methods == {"GET", "HEAD", "POST"}

\* request.method.lower()
lower(method) ==
  CASE method = "GET" -> "get" [] method = "HEAD" -> "head" [] method = "POST" -> "post"

\* getattr(self, name, None)
Getattr(cls, name) == IF name \in cls.handlers THEN name ELSE None

ResolveVerb(cls, method) ==
  LET meth == Getattr(cls, lower(method))
  IN  IF meth = None /\ method = "HEAD" THEN Getattr(cls, "get") ELSE meth

\* the per-verb list looked up under the name of the handler that serves
\* the request
MethodDecoratorsOfHandler(cls, method) ==
  IF cls.method_decorators.mapping
  THEN IF ResolveVerb(cls, method) \in DOMAIN cls.method_decorators.verbs
       THEN cls.method_decorators.verbs[ResolveVerb(cls, method)]
       ELSE <<>>
  ELSE cls.method_decorators.list

MethodDecorators(cls, method) ==
  IF cls.method_decorators.mapping
  THEN IF lower(method) \in DOMAIN cls.method_decorators.verbs
       THEN cls.method_decorators.verbs[lower(method)]
       ELSE <<>>
  ELSE cls.method_decorators.list

ViewFunction(self, view, cls, method, accept, returned) ==
  LET meth == ResolveVerb(cls, method)
      entered == Enters(view.decorators, "api")
  IN  IF meth = None
      THEN [resp |-> Failure("AssertionError", 0), events |-> <<>>,
            dispatched |-> Finished(NoResponse), calls |-> entered]
      ELSE LET decorated == ApplyDecorators(MethodDecorators(cls, method), <<>>)
               Returning(out) ==
                 [resp |-> out.resp, events |-> out.events,
                  dispatched |-> out.dispatched,
                  calls |-> entered \o Enters(decorated, "resource")
                              \o <<Call("handler", "resource", meth)>>
                              \o Leaves(decorated, "resource")
                              \o (IF out.resp.kind = "response"
                                  THEN Leaves(view.decorators, "api") ELSE <<>>)]
           IN  Returning(OutputWrapper(self, view.view_class, accept, returned))

(***************************************************************************)
(* State machine                                                           *)
(***************************************************************************)
Targets == {None, "app", "bp"}

\* the second Api is constructed on its host
Hosts == {"app", "bp"}

Commit(w) ==
  /\ api' = w.api
  /\ app' = w.app
  /\ bp' = w.bp
  /\ setups' = w.setups
  /\ resource' = w.resource
  /\ nviews' = w.nviews

\* the last operation; adds counts the add_resource calls
NoOp == [adds |-> 0, op |-> "construct", api |-> 0, resource |-> None,
         urls |-> <<>>, endpoint |-> None, exc |-> None, by |-> 0]

\* no request is being served; registry is the Api's registry as the request
\* found it, representations counts the calls of api.representation
NoRequest ==
  [via |-> "none", api |-> 0, resource |-> None, registry |-> <<>>,
   method |-> None, accept |-> {},
   returned |-> Finished(NoResponse), fallback |-> NoType, keyword |-> FALSE,
   dispatched |-> Finished(NoResponse), resp |-> NoResponse, events |-> <<>>,
   calls |-> <<>>, representations |-> 0]

Init ==
  \E t1 \in Targets, t2 \in Hosts, c \in Configs :
    LET w == Construct(Construct(EmptyWorld, 1, t1, c.prefix, c.url_part_order),
                       2, t2, "", DefaultOrder)
    IN  /\ api = w.api
        /\ app = w.app
        /\ bp = w.bp
        /\ setups = w.setups
        /\ resource = w.resource
        /\ nviews = w.nviews
        /\ attached = (1 :> t1) @@ (2 :> t2)
        /\ last = NoOp
        /\ request = NoRequest

\* api.init_app(target) on an Api constructed without an application
init_app(a, target) ==
  /\ attached[a] = None
  /\ LET w == InitAppOn(World, a, target)
     IN  /\ Commit(w)
         /\ attached' = [attached EXCEPT ![a] = target]
         /\ UNCHANGED request
         /\ last' = [NoOp EXCEPT !.adds = last.adds,
                                 !.op = "init_app", !.api = a,
                                 !.exc = w.exc, !.by = w.by]

add_resource(a, r, urls, ep) ==
  /\ last.adds < MaxAdds
  /\ LET w == AddResourceTo(World, a, r, urls, ep)
     IN  /\ Commit(w)
         /\ UNCHANGED <<attached, request>>
         /\ last' = [adds |-> last.adds + 1,
                     op |-> "add_resource", api |-> a,
                     resource |-> r, urls |-> urls, endpoint |-> EndpointOf(r, ep),
                     exc |-> w.exc, by |-> w.by]

\* app.register_blueprint(bp, url_prefix=...)
register_blueprint(url_prefix) ==
  /\ Len(setups) < MaxBinds
  /\ LET w == BlueprintRegister(World, url_prefix)
     IN  /\ Commit(w)
         /\ UNCHANGED <<attached, request>>
         /\ last' = [NoOp EXCEPT !.adds = last.adds,
                                 !.op = "register_blueprint",
                                 !.exc = w.exc, !.by = w.by]

Next ==
  \/ \E a \in Apis, t \in {"app", "bp"} : init_app(a, t)
  \/ \E a \in Apis, reg \in Registrations, urls \in UrlLists :
       add_resource(a, reg.resource, urls, reg.endpoint)
  \/ \E p \in MountPrefixes : register_blueprint(p)

Spec == Init /\ [][Next]_vars

(***************************************************************************)
(* Registration claims                                                     *)
(***************************************************************************)
Routes == {app.url_map[i] : i \in 1..Len(app.url_map)}

Segment(parts, key) == IF parts[key] = "" THEN "" ELSE parts[key]

\* the non-empty segments among {mount prefix, Api prefix, pattern},
\* concatenated in url_part_order
ExpectedPath(b, a, e, order) ==
  LET parts == [b |-> b, a |-> a, e |-> e]
  IN  Segment(parts, order[1]) \o Segment(parts, order[2]) \o Segment(parts, order[3])

PathAsSpecified(route) ==
  route.rule = ExpectedPath(route.b, api[route.api].prefix, route.url,
                            api[route.api].url_part_order)

\* C1: for an Api attached to the mount point, every path registered with
\* the host, by an add_resource before the mount-bind or after it, is the
\* concatenation in url_part_order of the non-empty segments among
\* {mount registration prefix, Api prefix, pattern}.
C1_SamePathBeforeAndAfterBind ==
  \A route \in Routes :
    api[route.api].blueprint # None => PathAsSpecified(route)

\* the Api has been bound to a host application: by the constructor or
\* init_app on the application, or by a completed mount-bind
BoundToHost(a) ==
  \/ attached[a] = "app"
  \/ /\ attached[a] = "bp"
     /\ api[a].blueprint_setup # 0
     /\ setups[api[a].blueprint_setup].first_registration

\* C2: an add_resource on an Api already bound to a host application
\* finalizes the registration within the call: when the call returns, the
\* host has a route for the resource's first pattern under its endpoint.
C2_BoundAddResourceFinalizes ==
  (last.op = "add_resource" /\ last.exc = None /\ BoundToHost(last.api))
    => \E route \in Routes :
         /\ route.api = last.api
         /\ route.url = last.urls[1]
         /\ app.view_functions[route.endpoint].view_class = last.resource

\* C3: a bind of a mount point that is already registered with the host
\* fails with ValueError in the first mount-bind callback, the callback of
\* every attached Api raises ValueError on the new setup state, and the
\* failing bind adds no route and no endpoint to the host.
C3_SecondBindFails ==
  [][(/\ last'.op = "register_blueprint"
      /\ bp.name \in app.blueprints
      /\ bp.deferred_functions # <<>>)
       => /\ last'.exc = "ValueError"
          /\ last'.by = bp.deferred_functions[1].api
          /\ app'.url_map = app.url_map
          /\ app'.view_functions = app.view_functions
          /\ \A a \in Apis :
               api[a].blueprint # None =>
                 LET w == _deferred_blueprint_init(
                            WorldOf(api', app', bp', setups', resource', nviews'),
                            a, Len(setups'))
                 IN  w.exc = "ValueError" /\ w.app = app']_vars

C3_Witness ==
  /\ last.op = "register_blueprint"
  /\ last.exc = "ValueError"
  /\ Len(setups) = 2
  /\ \A a \in Apis : api[a].blueprint = "bp"
  /\ \E a \in Apis : api[a].resources # <<>>
  /\ app.url_map # <<>>

\* C4: on an Api bound directly to the host application, finalizing a
\* registration whose endpoint the host already maps to the same resource
\* class does not raise ValueError (EndpointConflict); with another resource
\* class it raises ValueError and the host's routes and endpoints are as
\* before the call.
C4_EndpointConflict ==
  [][(last'.op = "add_resource" /\ api[last'.api].app = "app"
        /\ last'.endpoint \in DOMAIN app.view_functions)
       => IF app.view_functions[last'.endpoint].view_class = last'.resource
          THEN last'.exc # "ValueError"
          ELSE /\ last'.exc = "ValueError"
               /\ app'.url_map = app.url_map
               /\ app'.view_functions = app.view_functions]_vars

C4_Witness ==
  /\ last.op = "add_resource"
  /\ last.exc = "ValueError"
  /\ api[last.api].app = "app"
  /\ last.endpoint \in DOMAIN app.view_functions
  /\ app.view_functions[last.endpoint].view_class # last.resource

\* C5: when the mount-bind completes, every path it registered (the
\* resources added before the bind) is the concatenation of the non-empty
\* segments in url_part_order: /bp, /api, /hi give /bp/api/hi under bae
\* and /api/hi/bp under aeb.
C5_PathOfResourceAddedBeforeBind ==
  (last.op = "register_blueprint" /\ last.exc = None)
    => \A route \in Routes :
         api[route.api].blueprint # None =>
           /\ PathAsSpecified(route)
           /\ (route.b = "/bp" /\ api[route.api].prefix = "/api" /\ route.url = "/hi")
                => /\ api[route.api].url_part_order = <<"b", "a", "e">>
                        => route.rule = "/bp/api/hi"
                   /\ api[route.api].url_part_order = <<"a", "e", "b">>
                        => route.rule = "/api/hi/bp"

\* the Apis whose mount-bind callback is recorded on the mount point, in
\* the order recorded
Callbacks ==
  SelectSeq([i \in 1..Len(bp.deferred_functions) |-> bp.deferred_functions[i]],
            LAMBDA f : f.kind = "init")

\* C14: every mount setup object has its rule-adder replaced at most once:
\* by the first mount-bind callback recorded on the mount point, whatever
\* the number of Apis attached; the saved original is the rule-adder the
\* host shipped, never the patch.
C14_PatchInstalledOnce ==
  \A s \in 1..Len(setups) :
    /\ Len(setups[s].patches) <= 1
    /\ setups[s]._original_add_url_rule # PatchName
    /\ setups[s].add_url_rule = PatchName <=> setups[s].patches # <<>>
    /\ setups[s].patches # <<>> =>
         /\ setups[s].patches = <<Callbacks[1].api>>
         /\ setups[s]._original_add_url_rule = "add_url_rule"
    /\ \A a \in Apis : api[a].blueprint_setup = s => setups[s].patches # <<>>

C14_Witness ==
  /\ Len(Callbacks) = 2
  /\ Len(setups) = 1
  /\ \A a \in Apis : api[a].blueprint_setup = 1
  /\ setups[1].patches = <<Callbacks[1].api>>
  /\ last.op = "register_blueprint"
  /\ last.exc = None

\* the name the host knows the endpoint of the last add_resource by
LastEndpoint ==
  IF api[last.api].blueprint # None THEN bp.name \o "." \o last.endpoint
  ELSE last.endpoint

\* C13: for Apis on the host and for Apis on the mount point alike, every
\* route of the host was added for the resource class that serves its
\* endpoint, and an add_resource that is refused because its endpoint
\* belongs to another resource class is refused with ValueError
\* (EndpointConflict).
C13_OneResourceTypePerEndpoint ==
  /\ \A route \in Routes :
       route.cls = app.view_functions[route.endpoint].view_class
  /\ (/\ last.op = "add_resource"
      /\ last.exc # None
      /\ LastEndpoint \in DOMAIN app.view_functions
      /\ app.view_functions[LastEndpoint].view_class # last.resource)
       => last.exc = "ValueError"

\* the names under which the host has a view of resource class r
\* registered by Api a
FinalizedAs(a, r) ==
  {e \in DOMAIN app.view_functions :
     app.view_functions[e].api = a /\ app.view_functions[e].view_class = r}

\* C20: api.url_for(R) resolves an endpoint name under which that Api
\* finalized R, qualified with the mount point's name exactly when the Api
\* is attached to the mount point; whatever else was registered, under
\* other endpoint names or on other Apis.
C20_UrlForOwnEndpoint ==
  \A a \in Apis, r \in Resources :
    FinalizedAs(a, r) # {} =>
      /\ url_for(World, a, r).exc = None
      /\ url_for(World, a, r).endpoint \in FinalizedAs(a, r)

\* add_resource on an Api constructed on the host application finalizes the
\* registration at once; the step ended in ValueError
FinalizeConflicts ==
  /\ last'.op = "add_resource"
  /\ api[last'.api].app = "app"
  /\ last'.exc = "ValueError"

\* C22: when finalizing a registration fails with ValueError
\* (EndpointConflict) the state is as before the call: the host has no new
\* route, the resource class's endpoint and mediatypes attributes are
\* unchanged and the Api's endpoints set has not gained the name.
C22_ConflictLeavesStateAsBefore ==
  [][FinalizeConflicts =>
       /\ app' = app
       /\ resource' = resource
       /\ api'[last'.api].endpoints = api[last'.api].endpoints]_vars

(***************************************************************************)
(* Serving requests: one Api on the host application with both resource    *)
(* classes registered; the registry grows through api.representation.      *)
(***************************************************************************)
InitDispatch ==
  \E dm \in DefaultMediatypes :
    LET w0 == Construct(Construct(EmptyWorld, 1, "app", "", DefaultOrder),
                        2, None, "", DefaultOrder)
        w1 == AddResourceTo(w0, 1, "Foo", <<"/foo">>, None)
        w2 == AddResourceTo(w1, 1, "Bar", <<"/bar">>, None)
    IN  /\ api = [w2.api EXCEPT ![1].default_mediatype = dm]
        /\ app = w2.app
        /\ bp = w2.bp
        /\ setups = w2.setups
        /\ resource = w2.resource
        /\ nviews = w2.nviews
        /\ attached = (1 :> "app") @@ (2 :> None)
        /\ last = NoOp
        /\ request = NoRequest

Registered == UNCHANGED <<app, bp, setups, resource, nviews, attached, last>>

\* @api.representation(mediatype) applied to func
representation(a, mediatype, func) ==
  /\ request.representations < MaxRepresentations
  /\ api' = [api EXCEPT ![a].representations = SetItem(@, mediatype, func)]
  /\ request' = [NoRequest EXCEPT !.representations = request.representations + 1]
  /\ Registered

\* the host calls the view function registered under endpoint with a
\* request of the given method; the handler returns returned
serve(endpoint, method, accept, returned) ==
  LET view == app.view_functions[endpoint]
      Answered(out) ==
        [via |-> "view", api |-> view.api, resource |-> view.view_class,
         registry |-> api[view.api].representations,
         method |-> method, accept |-> accept, returned |-> returned,
         fallback |-> NoType, keyword |-> TRUE,
         dispatched |-> out.dispatched, resp |-> out.resp,
         events |-> out.events, calls |-> out.calls,
         representations |-> request.representations]
  IN  /\ request.via = "none"
      /\ request' = Answered(ViewFunction(api[view.api], view,
                                          resource[view.view_class],
                                          method, accept, returned))
      /\ UNCHANGED api
      /\ Registered

\* api.make_response(data, 200, {}, fallback_mediatype=fallback), or with
\* headers={} by keyword
call_make_response(a, accept, fallback, keyword) ==
  LET out == make_response(api[a], "d", 200, NoHeaders, keyword, fallback, accept)
  IN  /\ request.via = "none"
      /\ request' = [via |-> "make_response", api |-> a, resource |-> None,
                     registry |-> api[a].representations,
                     method |-> None, accept |-> accept,
                     returned |-> [shape |-> "bare", data |-> "d", code |-> 0,
                                   headers |-> NoHeaders, obj |-> NoResponse],
                     fallback |-> fallback, keyword |-> keyword,
                     dispatched |-> Finished(NoResponse), resp |-> out.resp,
                     events |-> out.events, calls |-> <<>>,
                     representations |-> request.representations]
      /\ UNCHANGED api
      /\ Registered

\* the response leaves; the next request may come
respond ==
  /\ request.via # "none"
  /\ request' = [NoRequest EXCEPT !.representations = request.representations]
  /\ UNCHANGED api
  /\ Registered

\* the Apis that have registered views
Serving == {app.view_functions[e].api : e \in DOMAIN app.view_functions}

NextDispatch ==
  \/ respond
  \/ \E a \in Serving, mediatype \in Registrable, func \in Transformers :
       representation(a, mediatype, func)
  \/ \E endpoint \in DOMAIN app.view_functions, accept \in AcceptHeaders,
        returned \in Returns :
       serve(endpoint, "GET", accept, returned)
  \/ \E a \in Serving, accept \in AcceptHeaders, fallback \in Fallbacks,
        keyword \in BOOLEAN :
       call_make_response(a, accept, fallback, keyword)

SpecDispatch == InitDispatch /\ [][NextDispatch]_vars

(***************************************************************************)
(* The life of an Api: registrations, binds and representation calls in    *)
(* any order. The first Api is constructed with a prefix, unattached or on *)
(* a host; the second on the mount point.                                  *)
(***************************************************************************)
InitLifecycle ==
  \E t1 \in Targets :
    LET w == Construct(Construct(EmptyWorld, 1, t1, "/api", DefaultOrder),
                       2, "bp", "", DefaultOrder)
    IN  /\ api = w.api
        /\ app = w.app
        /\ bp = w.bp
        /\ setups = w.setups
        /\ resource = w.resource
        /\ nviews = w.nviews
        /\ attached = (1 :> t1) @@ (2 :> "bp")
        /\ last = NoOp
        /\ request = NoRequest

NextLifecycle ==
  \/ \E t \in Hosts : init_app(1, t)
  \/ \E a \in Apis, reg \in Registrations, urls \in UrlLists :
       add_resource(a, reg.resource, urls, reg.endpoint)
  \/ register_blueprint("/bp")
  \/ \E mediatype \in {JSON, XML} : representation(1, mediatype, "f")

SpecLifecycle == InitLifecycle /\ [][NextLifecycle]_vars

\* prefix, default_mediatype, decorators, url_part_order, catch_all_404s,
\* serve_challenge_on_401, errors
Configuration(self) ==
  <<self.prefix, self.default_mediatype, self.decorators, self.url_part_order,
    self.catch_all_404s, self.serve_challenge_on_401, self.errors>>

\* C19: no add_resource, representation, init_app or mount-bind changes an
\* Api's configuration fields, removes a name from its endpoints set or
\* removes a media type from its registry.
C19_ConfigurationFixedRegistriesGrow ==
  [][\A a \in Apis :
       /\ Configuration(api'[a]) = Configuration(api[a])
       /\ api[a].endpoints \subseteq api'[a].endpoints
       /\ \A i \in 1..Len(api[a].representations) :
            Has(api'[a].representations, api[a].representations[i].mediatype)]_vars

C19_Witness ==
  /\ attached[1] = "bp"
  /\ Len(setups) = 1
  /\ api[1].endpoints = {"foo", "bar"}
  /\ Keys(api[1].representations) = <<JSON, XML>>
  /\ api[1].prefix = "/api"

(***************************************************************************)
(* Negotiation claims                                                      *)
(***************************************************************************)
\* RFC 7231 5.3.2: the most specific Accept entry that covers a media type
\* gives its quality; a type is acceptable when that quality is positive
Covers(value, mediatype) ==
  \/ value = mediatype
  \/ value = ANY
  \/ (value[1] = mediatype[1] /\ value[2] = "*")

Wildcards(value) == Cardinality({i \in 1..2 : value[i] = "*"})

Governing(accept, mediatype) ==
  CHOOSE e \in accept :
    /\ Covers(e.value, mediatype)
    /\ \A d \in accept :
         Covers(d.value, mediatype) => Wildcards(e.value) <= Wildcards(d.value)

Acceptable(accept, mediatype) ==
  /\ \E e \in accept : Covers(e.value, mediatype)
  /\ Governing(accept, mediatype).quality > 0

ClientQuality(accept, mediatype) ==
  IF Acceptable(accept, mediatype) THEN Governing(accept, mediatype).quality ELSE 0

Registry == api[request.api].representations

Events == {request.events[i] : i \in 1..Len(request.events)}

ApiNegotiations == {e \in Events : e.ev = "best_match" /\ e.level = "api"}

ApiTransforms == {e \in Events : e.ev = "transform" /\ e.level = "api"}

ResourceTransforms == {e \in Events : e.ev = "transform" /\ e.level = "resource"}

Supplied == IF request.fallback # NoType THEN request.fallback
            ELSE api[request.api].default_mediatype

\* C6: make_response fails with NotAcceptable (406) exactly when no
\* registered media type is acceptable to the Accept header and neither
\* fallback_mediatype nor default_mediatype is given.
C6_NotAcceptableExactly ==
  (request.via # "none")
    => (request.resp.kind = "NotAcceptable"
          <=> /\ ApiNegotiations # {}
              /\ \A i \in 1..Len(Registry) :
                   ~ Acceptable(request.accept, Registry[i].mediatype)
              /\ request.fallback = NoType
              /\ api[request.api].default_mediatype = NoType)

C6_Witness ==
  /\ request.via = "view"
  /\ request.resp.kind = "NotAcceptable"
  /\ request.resp.code = 406
  /\ Len(Registry) = 2
  /\ request.accept # {}

\* the highest client quality of a registered type
BestQuality(accept) ==
  LET qualities == {ClientQuality(accept, Registry[i].mediatype) : i \in 1..Len(Registry)}
  IN  CHOOSE q \in qualities : \A p \in qualities : p <= q

\* the registered types of the highest client quality, by position
Best(accept) ==
  LET highest == BestQuality(accept)
  IN  {i \in 1..Len(Registry) :
         /\ Acceptable(accept, Registry[i].mediatype)
         /\ ClientQuality(accept, Registry[i].mediatype) = highest}

\* among those, the ones whose governing Accept entry is the most specific
MostSpecificBest(accept) ==
  LET best == Best(accept)
      wildcards == [i \in best |-> Wildcards(Governing(accept, Registry[i].mediatype).value)]
  IN  {i \in best : \A j \in best : wildcards[i] <= wildcards[j]}

Earliest(positions) == CHOOSE i \in positions : \A j \in positions : i <= j

ExpectedCode == IF request.returned.shape = "bare" THEN 200 ELSE request.returned.code

ExpectedHeaders ==
  IF request.returned.shape = "triple" THEN request.returned.headers ELSE NoHeaders

C9_FinishedResponsePassesThrough ==
  (request.via = "view" /\ request.returned.shape = "response")
    => /\ request.dispatched = request.returned
       /\ request.resp = request.returned.obj
       /\ request.events = <<>>

C9_Witness ==
  /\ request.via = "view"
  /\ request.returned.shape = "response"
  /\ request.resp = HandlerResponse
  /\ request.resource = "Bar"
  /\ Acceptable(request.accept, JSON)

ResourceLevelMatch ==
  LET representations == ResourceRepresentations(request.resource)
  IN  \E i \in 1..Len(representations) :
        Acceptable(request.accept, representations[i].mediatype)

\* C10: when the resource declares representations and one of them is
\* acceptable to the request, exactly one transformer is invoked, the
\* resource's own, and no API-level transformer; otherwise the handler's raw
\* return value reaches the API-level materialization unmodified.
C10_ResourceLevelFirst ==
  (request.via = "view" /\ request.returned.shape # "response")
    => IF ResourceLevelMatch
       THEN /\ ApiTransforms = {}
            /\ ApiNegotiations = {}
            /\ Cardinality(ResourceTransforms) = 1
            /\ Len(request.events) = 2
            /\ \A e \in ResourceTransforms :
                 /\ Has(ResourceRepresentations(request.resource), e.mediatype)
                 /\ e.func = Lookup(ResourceRepresentations(request.resource),
                                    e.mediatype)
                 /\ request.resp.by = e.func
       ELSE /\ ResourceTransforms = {}
            /\ request.dispatched = request.returned
            /\ ApiNegotiations # {}

C10_Witness ==
  /\ request.via = "view"
  /\ request.resource = "Bar"
  /\ request.returned.shape = "pair"
  /\ \E e \in ResourceTransforms : e.func = "bar_json" /\ e.mediatype = JSON
  /\ Has(Registry, JSON)
  /\ request.resp.by = "bar_json"

ResourceNegotiations == {e \in Events : e.ev = "best_match" /\ e.level = "resource"}

Transformed(level) ==
  SelectSeq(request.events, LAMBDA e : e.ev = "transform" /\ e.level = level)

\* the transformer of the level was called once, with the negotiated type,
\* and the response is its response under that Content-Type
TransformedOnceAs(level, func, mediatype) ==
  /\ Len(Transformed(level)) = 1
  /\ Transformed(level)[1].func = func
  /\ Transformed(level)[1].mediatype = mediatype
  /\ request.resp.kind = "response"
  /\ request.resp.by = func
  /\ request.resp.content_type = mediatype
  /\ Transform(func, "d", 200, NoHeaders).content_type # mediatype

\* C15: whenever the negotiated media type is registered, at the API level
\* and at the resource level, its transformer is called once and the
\* response carries the negotiated type as its Content-Type, whatever
\* Content-Type the transformer set.
C15_ContentTypeIsNegotiated ==
  /\ \A e \in ApiNegotiations :
       Has(Registry, e.mediatype) =>
         TransformedOnceAs("api", Lookup(Registry, e.mediatype), e.mediatype)
  /\ \A e \in ResourceNegotiations :
       Has(ResourceRepresentations(request.resource), e.mediatype) =>
         /\ TransformedOnceAs("resource",
                              Lookup(ResourceRepresentations(request.resource),
                                     e.mediatype),
                              e.mediatype)
         /\ Transformed("api") = <<>>

C15_Witness ==
  /\ request.via = "view"
  /\ \E e \in ApiNegotiations : e.mediatype = XML
  /\ Has(Registry, XML)
  /\ request.resp.by = Lookup(Registry, XML)
  /\ request.resp.content_type = XML

\* C16: when the negotiated media type is not in the registry it is the
\* supplied fallback; if it is text/plain the response is a plain-text
\* response of the payload's string form with the given status and headers
\* and Content-Type text/plain, otherwise make_response fails with
\* InternalServerError (500).
C16_UnregisteredType ==
  \A e \in ApiNegotiations :
    (e.mediatype # NoType /\ ~ Has(Registry, e.mediatype)) =>
      /\ e.mediatype = Supplied
      /\ IF e.mediatype = TEXT
         THEN /\ request.resp.kind = "response"
              /\ request.resp.by = "flask"
              /\ request.resp.data = str(request.returned.data)
              /\ request.resp.code = ExpectedCode
              /\ request.resp.headers = ExpectedHeaders
              /\ request.resp.content_type = TEXT
         ELSE /\ request.resp.kind = "InternalServerError"
              /\ request.resp.code = 500

Unique(keys) == \A i, j \in 1..Len(keys) : keys[i] = keys[j] => i = j

AnyHeader == {[value |-> ANY, quality |-> 10]}

\* new is old with func registered for mediatype: in place when the type is
\* known, at the end when it is new
Registers(old, new, mediatype, func) ==
  IF Has(old, mediatype)
  THEN /\ Keys(new) = Keys(old)
       /\ Lookup(new, mediatype) = func
       /\ \A i \in 1..Len(old) : old[i].mediatype # mediatype => new[i] = old[i]
       /\ best_match(AnyHeader, Keys(new), NoType)
            = best_match(AnyHeader, Keys(old), NoType)
  ELSE new = Append(old, [mediatype |-> mediatype, func |-> func])

\* C18: a call of representation(mediatype) for a media type of the
\* registry replaces its transformer and keeps its position and its
\* precedence in a tie; for a new media type it appends the entry; the keys
\* of every registry stay unique.
C18_RegistrationKeepsPosition ==
  [][\A a \in Apis :
       /\ Unique(Keys(api'[a].representations))
       /\ api'[a].representations # api[a].representations =>
            \E mediatype \in Registrable, func \in Transformers :
              Registers(api[a].representations, api'[a].representations,
                        mediatype, func)]_vars

C18_Witness ==
  /\ request.representations = 2
  /\ api[1].representations = <<[mediatype |-> JSON, func |-> "f"],
                                [mediatype |-> XML, func |-> "g"]>>

(***************************************************************************)
(* Verbs and decorators: one Api on the host application, constructed with *)
(* its decorators, with both resource classes registered; requests of      *)
(* every method.                                                           *)
(***************************************************************************)
\* Api(app, decorators=...)
ApiDecoratorLists == {<<>>, <<"d1", "d2">>}

\* Resource.method_decorators of a resource class
MethodDecoratorSpecs ==
  {Flat(<<>>), Flat(<<"m1", "m2">>),
   PerVerb([get |-> <<"g1", "g2">>, head |-> <<"h1">>])}

\* Foo defines get; Bar defines get, head and post
HandlersOf(r) == IF r = "Foo" THEN {"get"} ELSE {"get", "head", "post"}

VerbAccepts == {{}, {[value |-> JSON, quality |-> 10]}}

InitVerbs ==
  \E ds \in ApiDecoratorLists, md \in [Resources -> MethodDecoratorSpecs] :
    LET classes == [r \in Resources |->
                      [EmptyWorld.resource[r] EXCEPT !.handlers = HandlersOf(r),
                                                     !.method_decorators = md[r]]]
        w0 == Construct(Construct([EmptyWorld EXCEPT !.resource = classes],
                                  1, "app", "", DefaultOrder),
                        2, None, "", DefaultOrder)
        w1 == [w0 EXCEPT !.api[1].decorators = ds]
        w2 == AddResourceTo(w1, 1, "Foo", <<"/foo">>, None)
        w3 == AddResourceTo(w2, 1, "Bar", <<"/bar">>, None)
    IN  /\ api = w3.api
        /\ app = w3.app
        /\ bp = w3.bp
        /\ setups = w3.setups
        /\ resource = w3.resource
        /\ nviews = w3.nviews
        /\ attached = (1 :> "app") @@ (2 :> None)
        /\ last = NoOp
        /\ request = NoRequest

NextVerbs ==
  \/ respond
  \/ \E endpoint \in DOMAIN app.view_functions, method \in Methods,
        accept \in VerbAccepts, returned \in Returns :
       serve(endpoint, method, accept, returned)

SpecVerbs == InitVerbs /\ [][NextVerbs]_vars

(***************************************************************************)
(* Verb and decorator claims                                               *)
(***************************************************************************)
Calls(level) == SelectSeq(request.calls, LAMBDA c : c.level = level)

HandlerCalls == SelectSeq(request.calls, LAMBDA c : c.ev = "handler")

Served == resource[request.resource]

\* C11: the handler called is the one named after the lower-cased request
\* method; a HEAD request on a resource without a head handler is served
\* by its get handler; without any handler the request ends in
\* MethodNotAllowed (405).
C11_VerbResolution ==
  request.via = "view" =>
    LET name == lower(request.method)
    IN  IF name \in Served.handlers
        THEN HandlerCalls = <<Call("handler", "resource", name)>>
        ELSE IF request.method = "HEAD" /\ "get" \in Served.handlers
             THEN HandlerCalls = <<Call("handler", "resource", "get")>>
             ELSE /\ HandlerCalls = <<>>
                  /\ request.resp.kind = "MethodNotAllowed"
                  /\ request.resp.code = 405

\* C12: on a request, the first decorator of the Api's decorators list is
\* entered first and, when the request is answered, returns last.
C12_FirstDecoratorOutermost ==
  (request.via = "view" /\ api[request.api].decorators # <<>>) =>
    LET decorators == api[request.api].decorators
        calls == Calls("api")
    IN  /\ calls # <<>>
        /\ calls[1] = Call("enter", "api", decorators[1])
        /\ request.resp.kind = "response" =>
             calls[Len(calls)] = Call("return", "api", decorators[1])

\* the request reached a handler of a resource class whose method_decorators
\* is a flat list
FlatDecorated ==
  /\ request.via = "view"
  /\ ~ Served.method_decorators.mapping
  /\ HandlerCalls # <<>>

\* C17 as claimed: the decorators of a flat method_decorators list wrap the
\* handler of every verb, the first listed outermost (entered first).
C17_FirstListedOutermost ==
  FlatDecorated =>
    LET list == Served.method_decorators.list
        n == Len(list)
        calls == Calls("resource")
    IN  /\ Len(calls) = 2 * n + 1
        /\ \A i \in 1..n : calls[i] = Call("enter", "resource", list[i])

\* C17 as amended: the decorators of a flat method_decorators list wrap the
\* handler of every verb, each around the ones listed before it: the last
\* listed is entered first, the first listed is entered last, right before
\* the handler, and they return in list order.
C17_LastListedOutermost ==
  FlatDecorated =>
    LET list == Served.method_decorators.list
        n == Len(list)
        calls == Calls("resource")
    IN  /\ Len(calls) = 2 * n + 1
        /\ \A i \in 1..n :
             /\ calls[i] = Call("enter", "resource", list[n + 1 - i])
             /\ calls[n + 1 + i] = Call("return", "resource", list[i])
        /\ calls[n + 1].ev = "handler"

C17_Witness ==
  /\ FlatDecorated
  /\ Len(Served.method_decorators.list) = 2
  /\ request.method = "HEAD"
  /\ HandlerCalls = <<Call("handler", "resource", "get")>>
  /\ Calls("resource")[1] = Call("enter", "resource", "m2")

\* the request reached a handler of a resource class whose method_decorators
\* is a mapping from verb to list
VerbDecorated ==
  /\ request.via = "view"
  /\ Served.method_decorators.mapping
  /\ HandlerCalls # <<>>

\* the decorators entered around the handler, innermost first
Wrapping ==
  LET entered == SelectSeq(Calls("resource"), LAMBDA c : c.ev = "enter")
  IN  [i \in 1..Len(entered) |-> entered[Len(entered) + 1 - i].func]

\* C21: with a per-verb method_decorators mapping the decorators around the
\* handler are exactly the list under the request's lower-cased method, and
\* none when the mapping has no such key; a HEAD request served by the get
\* handler is wrapped with the list under head, not the one under get.
C21_DecoratorsOfRequestMethod ==
  VerbDecorated =>
    LET verbs == Served.method_decorators.verbs
        name == lower(request.method)
    IN  /\ Wrapping = (IF name \in DOMAIN verbs THEN verbs[name] ELSE <<>>)
        /\ Len(Calls("resource")) = 2 * Len(Wrapping) + 1

\* a HEAD request on Foo, which has no head handler, under a mapping with
\* different lists for get and head
C21_Witness ==
  /\ VerbDecorated
  /\ request.method = "HEAD"
  /\ "head" \notin Served.handlers
  /\ HandlerCalls = <<Call("handler", "resource", "get")>>
  /\ Served.method_decorators.verbs["head"] # Served.method_decorators.verbs["get"]
  /\ Wrapping = <<"h1">>

====
